---- MODULE Spec2Model ----
(***************************************************************************)
(* Family tree registry (FamilyMember / FamilyTree) and the generation     *)
(* walk of FamilyTree::showCenteredTree, modelled from FileName1.cpp.      *)
(* Pointers are indices into the member pool; NULL is 0.  Names are        *)
(* sequences of one-character strings.                                     *)
(***************************************************************************)
EXTENDS Integers, Sequences, FiniteSets, TLC

NULL == 0

MAX_NAME == 15
HSPACE == 6
NAME_CAP == 63
LINE_CAP == 256
MIN_WIDTH == 6

\* Largest member pool the model explores.
MaxMembers == 3
\* Most generations one walk may render in the model; more than any tree
\* of MaxMembers members has, so a walk that reaches it has not ended.
MaxGenerations == 6

\* The largest number of children of the root explored in a large family.
MaxKids == 17

Carol == <<"C", "a", "r", "o", "l">>
Dave == <<"D", "a", "v", "e">>
Maximiliana == <<"M", "a", "x", "i", "m", "i", "l", "i", "a", "n", "a", " ",
                 "G", "r", "e", "e", "n">>
Unknown == <<"U", "n", "k", "n", "o", "w", "n">>
Empty == <<>>

\* What the operator may type at a name prompt (a blank line included).
NameInputs == {Empty, Carol, Dave, Maximiliana}
\* What the operator may type at a gender prompt once it is accepted.
GenderInputs == {"M", "F", "m", "f"}

VARIABLES pool, root, out, pc, currentGen, generation, gens

vars == <<pool, root, out, pc, currentGen, generation, gens>>
registry == <<pool, root>>

Min(S) == CHOOSE x \in S : \A y \in S : x <= y

InSeq(s, x) == \E i \in 1..Len(s) : s[i] = x

Take(s, n) == IF Len(s) <= n THEN s ELSE SubSeq(s, 1, n)

----------------------------------------------------------------------------
\* Console input helpers

\* cin.getline(buffer, 64): at most 63 characters are stored.
readLine(typed) == Take(typed, NAME_CAP)

readGender(g) == IF g = "M" \/ g = "m" THEN "M" ELSE "F"

----------------------------------------------------------------------------
\* class FamilyMember

copyName(src) == Take(src, NAME_CAP)

FamilyMember(n, g, isAlive) ==
    [name |-> copyName(n),
     gender |-> IF g = "M" \/ g = "m" THEN "M" ELSE "F",
     alive |-> isAlive,
     father |-> NULL, mother |-> NULL,
     firstChild |-> NULL, nextSibling |-> NULL]

\* The walk `while (t->nextSibling) t = t->nextSibling`.
RECURSIVE lastSibling(_, _)
lastSibling(p, t) ==
    IF p[t].nextSibling = NULL THEN t ELSE lastSibling(p, p[t].nextSibling)

\* addChild, but the child always becomes the first child and the chain
\* already there is not linked behind it.
addChildOverwrite(p, parent, child) ==
    IF child = NULL THEN p ELSE [p EXCEPT ![parent].firstChild = child]

\* parent->addChild(child) on pool p.
addChild(p, parent, child) ==
    IF child = NULL THEN p
    ELSE IF p[parent].firstChild = NULL
         THEN [p EXCEPT ![parent].firstChild = child]
         ELSE [p EXCEPT ![lastSibling(p, p[parent].firstChild)].nextSibling = child]

\* The child list of `parent`: firstChild, then the nextSibling chain.
RECURSIVE siblingChain(_, _)
siblingChain(p, c) ==
    IF c = NULL THEN <<>> ELSE <<c>> \o siblingChain(p, p[c].nextSibling)

childrenOf(p, parent) == siblingChain(p, p[parent].firstChild)

----------------------------------------------------------------------------
\* class FamilyTree: the registry

poolAdd(p, m) == Append(p, m)

eq(a, b) == a = b

findByName(p, name) ==
    LET hits == {i \in 1..Len(p) : eq(p[i].name, name)}
    IN  IF hits = {} THEN NULL ELSE Min(hits)

Say(op, name, msgs) == [op |-> op, name |-> name, msgs |-> msgs, lines |-> <<>>]

Outcome(p, r, o) == [pool |-> p, root |-> r, out |-> o]

\* createRootInteractive, but the "Root already exists." branch falls
\* through to the creation instead of returning.
createRootNoReturn(p, r) ==
    UNION {
        LET name == readLine(typed) IN
        IF name = Empty
        THEN {Outcome(p, r, Say("createRoot", name, <<"Empty name. Aborted.">>))}
        ELSE {Outcome(poolAdd(p, FamilyMember(name, g, a)), Len(p) + 1,
                      Say("createRoot", name,
                          IF r # NULL THEN <<"Root already exists.">> ELSE <<"Root created.">>))
              : g \in {readGender(x) : x \in GenderInputs}, a \in BOOLEAN}
        : typed \in NameInputs}

\* FamilyTree::createRootInteractive: every result the handler can produce
\* from registry (p, r), over everything the operator may type.
createRootInteractive(p, r) ==
    IF r # NULL
    THEN {Outcome(p, r, Say("createRoot", Empty, <<"Root already exists.">>))}
    ELSE UNION {
        LET name == readLine(typed) IN
        IF name = Empty
        THEN {Outcome(p, r, Say("createRoot", name, <<"Empty name. Aborted.">>))}
        ELSE {Outcome(poolAdd(p, FamilyMember(name, g, a)), Len(p) + 1,
                      Say("createRoot", name, <<"Root created.">>))
              : g \in {readGender(x) : x \in GenderInputs}, a \in BOOLEAN}
        : typed \in NameInputs}

\* The (father, mother) the prompts settled on, with the pool after them.
Resolved(p, parent, msgs) == [pool |-> p, parent |-> parent, msgs |-> msgs]

\* createPlaceholder, but the new parent is pooled only, on no child list.
createPlaceholderDetached(p, r, pname, g, a) == poolAdd(p, FamilyMember(pname, g, a))

\* A parent created on the fly: pooled, then attached under the root.
createPlaceholder(p, r, pname, g, a) ==
    addChild(poolAdd(p, FamilyMember(pname, g, a)), r, Len(p) + 1)

\* resolveParent, but a declined miss falls back to the root as the parent.
resolveParentDefaultRoot(p, r, msgs, who) ==
    UNION {
        LET pname == readLine(typed)
            found == findByName(p, pname)
            missed == Append(msgs, who \o " not found.")
        IN
        IF pname = Empty THEN {Resolved(p, NULL, msgs)}
        ELSE IF found # NULL THEN {Resolved(p, found, msgs)}
        ELSE {Resolved(createPlaceholder(p, r, pname, g, a), Len(p) + 1,
                       Append(missed, who \o " created and attached under root for visibility."))
              : g \in {readGender(x) : x \in GenderInputs}, a \in BOOLEAN}
             \cup {Resolved(p, r, missed)}
        : typed \in NameInputs}

\* addMemberInteractive, the father prompt (who = "Father") and the mother
\* prompt (who = "Mother"): a blank name, a name that is found, or a miss
\* that the operator either has created now or declines.
resolveParent(p, r, msgs, who) ==
    UNION {
        LET pname == readLine(typed)
            found == findByName(p, pname)
            missed == Append(msgs, who \o " not found.")
        IN
        IF pname = Empty THEN {Resolved(p, NULL, msgs)}
        ELSE IF found # NULL THEN {Resolved(p, found, msgs)}
        ELSE {Resolved(createPlaceholder(p, r, pname, g, a), Len(p) + 1,
                       Append(missed, who \o " created and attached under root for visibility."))
              : g \in {readGender(x) : x \in GenderInputs}, a \in BOOLEAN}
             \cup {Resolved(p, NULL, missed)}
        : typed \in NameInputs}

\* addMemberInteractive, the optional spouse prompt for the one missing
\* parent: returns the possible (pool, spouse) pairs.
resolveSpouse(p, r, msgs, who) ==
    {Resolved(p, NULL, Append(msgs, who \o " missing."))}
    \cup UNION {
        LET pname2 == readLine(typed)
            mnode == findByName(p, pname2)
            asked == Append(msgs, who \o " missing.")
        IN
        IF pname2 = Empty THEN {Resolved(p, NULL, asked)}
        ELSE IF mnode # NULL THEN {Resolved(p, mnode, asked)}
        ELSE {Resolved(createPlaceholder(p, r, pname2, g, a), Len(p) + 1, asked)
              : g \in {readGender(x) : x \in GenderInputs}, a \in BOOLEAN}
        : typed \in NameInputs}

\* linkMember, but the member is also put on the mother's child list when
\* a father is present.
linkMemberBothLists(p, r, name, gender, alive, father, mother, msgs) ==
    LET nm == Len(p) + 1
        p0 == poolAdd(p, FamilyMember(name, gender, alive))
        p1 == IF father # NULL
              THEN addChild([p0 EXCEPT ![nm].father = father], father, nm)
              ELSE p0
        p2 == IF mother # NULL
              THEN IF InSeq(childrenOf(p1, mother), nm)
                   THEN [p1 EXCEPT ![nm].mother = mother]
                   ELSE addChild([p1 EXCEPT ![nm].mother = mother], mother, nm)
              ELSE p1
        p3 == IF father = NULL /\ mother = NULL THEN addChild(p2, r, nm) ELSE p2
    IN  Outcome(p3, r, Say("addMember", name, Append(msgs, "Member added successfully.")))

\* linkMember, but a member with a mother goes on her child list, and on
\* the father's only when there is no mother.
linkMemberMotherFirst(p, r, name, gender, alive, father, mother, msgs) ==
    LET nm == Len(p) + 1
        p0 == poolAdd(p, FamilyMember(name, gender, alive))
        p1 == IF father # NULL
              THEN IF mother = NULL
                   THEN addChild([p0 EXCEPT ![nm].father = father], father, nm)
                   ELSE [p0 EXCEPT ![nm].father = father]
              ELSE p0
        p2 == IF mother # NULL
              THEN addChild([p1 EXCEPT ![nm].mother = mother], mother, nm)
              ELSE p1
        p3 == IF father = NULL /\ mother = NULL THEN addChild(p2, r, nm) ELSE p2
    IN  Outcome(p3, r, Say("addMember", name, Append(msgs, "Member added successfully.")))

\* addMemberInteractive, creating the member and linking it.
linkMember(p, r, name, gender, alive, father, mother, msgs) ==
    LET nm == Len(p) + 1
        p0 == poolAdd(p, FamilyMember(name, gender, alive))
        p1 == IF father # NULL
              THEN addChild([p0 EXCEPT ![nm].father = father], father, nm)
              ELSE p0
        p2 == IF mother # NULL
              THEN IF father = NULL
                   THEN addChild([p1 EXCEPT ![nm].mother = mother], mother, nm)
                   ELSE [p1 EXCEPT ![nm].mother = mother]
              ELSE p1
        p3 == IF father = NULL /\ mother = NULL THEN addChild(p2, r, nm) ELSE p2
        m3 == IF father = NULL /\ mother = NULL
              THEN Append(msgs, "No parents specified; member attached under root for visibility.")
              ELSE msgs
    IN  Outcome(p3, r, Say("addMember", name, Append(m3, "Member added successfully.")))

\* markLateInteractive, but the flag is cleared before the confirmation is
\* read, so a declined confirmation still marks the member.
markLateBeforeConfirm(p, r) ==
    IF r = NULL
    THEN {Outcome(p, r, Say("markLate", Empty, <<"No tree exists.">>))}
    ELSE UNION {
        LET name == readLine(typed)
            m == findByName(p, name)
        IN
        IF name = Empty
        THEN {Outcome(p, r, Say("markLate", name, <<"Empty name.">>))}
        ELSE IF m = NULL
        THEN {Outcome(p, r, Say("markLate", name, <<"Member not found.">>))}
        ELSE IF ~p[m].alive
        THEN {Outcome(p, r, Say("markLate", name, <<"Already marked Late.">>))}
        ELSE {Outcome([p EXCEPT ![m].alive = FALSE], r,
                      Say("markLate", name, <<"Marked Late.">>)),
              Outcome([p EXCEPT ![m].alive = FALSE], r,
                      Say("markLate", name, <<"Cancelled.">>))}
        : typed \in NameInputs}

\* FamilyTree::markLateInteractive.
markLateInteractive(p, r) ==
    IF r = NULL
    THEN {Outcome(p, r, Say("markLate", Empty, <<"No tree exists.">>))}
    ELSE UNION {
        LET name == readLine(typed)
            m == findByName(p, name)
        IN
        IF name = Empty
        THEN {Outcome(p, r, Say("markLate", name, <<"Empty name.">>))}
        ELSE IF m = NULL
        THEN {Outcome(p, r, Say("markLate", name, <<"Member not found.">>))}
        ELSE IF ~p[m].alive
        THEN {Outcome(p, r, Say("markLate", name, <<"Already marked Late.">>))}
        ELSE {Outcome([p EXCEPT ![m].alive = FALSE], r,
                      Say("markLate", name, <<"Marked Late.">>)),
              Outcome(p, r, Say("markLate", name, <<"Cancelled.">>))}
        : typed \in NameInputs}

\* showAllNames, but a late member's line carries a "+" marker.
showAllNamesWithStatus(p) ==
    [Say("showAllNames", Empty, <<"All members:">>)
        EXCEPT !.lines = [i \in 1..Len(p) |->
            <<"-", " ">> \o p[i].name \o (IF p[i].alive THEN <<>> ELSE <<" ", "+">>)]]

\* FamilyTree::showAllNames: one line "- <name>" per pool entry.
showAllNames(p) ==
    [Say("showAllNames", Empty, <<"All members:">>)
        EXCEPT !.lines = [i \in 1..Len(p) |-> <<"-", " ">> \o p[i].name]]

----------------------------------------------------------------------------
\* class FamilyPair and the generation walk of showCenteredTree

FamilyPair(f, m) == [father |-> f, mother |-> m, children |-> <<>>]

\* FamilyPair::parentLine into a buffer of outSize characters:
\* "<father> (<g>) - <mother> (<g>)", names cut to MAX_NAME, "Unknown" and
\* the default genders M / F for an absent parent.
parentLine(p, unit, outSize) ==
    LET fn == IF unit.father # NULL THEN p[unit.father].name ELSE Unknown
        mn == IF unit.mother # NULL THEN p[unit.mother].name ELSE Unknown
        tf == Take(fn, MAX_NAME)
        tm == Take(mn, MAX_NAME)
        fg == IF unit.father # NULL THEN p[unit.father].gender ELSE "M"
        mg == IF unit.mother # NULL THEN p[unit.mother].gender ELSE "F"
        s1 == Take(tf, outSize - 1)
        s2 == IF Len(s1) < outSize - 1 THEN s1 \o <<" ", "(", fg, ")">> ELSE s1
        s3 == IF Len(s2) < outSize - 1 THEN s2 \o <<" ", "-", " ">> ELSE s2
        s4 == IF Len(s3) < outSize - 1 THEN s3 \o Take(tm, outSize - 1 - Len(s3)) ELSE s3
        s5 == IF Len(s4) < outSize - 1 THEN s4 \o <<" ", "(", mg, ")">> ELSE s4
    IN  Take(s5, outSize - 1)

\* The inner loop of childrenLine for one name: its characters, up to
\* MAX_NAME of them, while the buffer has room.
copyChild(line, cn, outSize) ==
    LET room == outSize - 1 - Len(line)
        n == IF room < 0 THEN 0 ELSE room
    IN  line \o Take(Take(cn, MAX_NAME), n)

\* FamilyPair::childrenLine from child i on, with the buffer so far.
RECURSIVE childrenLineFrom(_, _, _, _, _)
childrenLineFrom(p, cs, i, line, outSize) ==
    IF i > Len(cs) THEN line
    ELSE LET named == copyChild(line, p[cs[i]].name, outSize)
             spaced == IF i # Len(cs) /\ Len(named) < outSize - 1
                       THEN Append(named, " ")
                       ELSE named
         IN  childrenLineFrom(p, cs, i + 1, spaced, outSize)

\* FamilyPair::childrenLine into a buffer of outSize characters.
childrenLine(p, unit, outSize) == childrenLineFrom(p, unit.children, 1, <<>>, outSize)

\* The display width of a unit from its two lines.
unitWidth(pl, cl) ==
    LET w == Len(pl)
        w2 == Len(cl)
        ww == IF w > w2 THEN w ELSE w2
    IN  IF ww < MIN_WIDTH THEN MIN_WIDTH ELSE ww

\* C++ int division, which truncates toward zero.
IntDiv(a, b) == IF a >= 0 THEN a \div b ELSE -((-a) \div b)

padLeft(w, len) == IntDiv(w - len, 2)

\* `for (sp = 0; sp < n; ++sp) cout << ' '`: nothing when n <= 0.
Spaces(n) == [i \in 1..n |-> " "]

\* centered, but nothing is printed after the text.
centeredNoRightPad(text, w) == Spaces(padLeft(w, Len(text))) \o text

\* A line centred in a block of width w: left pad, text, right pad.
centered(text, w) ==
    Spaces(padLeft(w, Len(text))) \o text \o Spaces(w - padLeft(w, Len(text)) - Len(text))

\* The connector block of a unit: the glyph under the centre of its
\* parent-line, spaces for the rest of the block.
connector(pl, w) ==
    LET pre == padLeft(w, Len(pl)) + IntDiv(Len(pl), 2)
    IN  Spaces(pre) \o <<"|">> \o Spaces(w - (pre + 1))

widthOf(p, unit) == unitWidth(parentLine(p, unit, LINE_CAP), childrenLine(p, unit, LINE_CAP))

\* The HSPACE gap after block i of count blocks: none after the last.
gapAfter(i, count) == IF i # count THEN Spaces(HSPACE) ELSE <<>>

\* One printed row of a generation: block(unit) for every unit, with gaps.
RECURSIVE parentsRow(_, _, _)
parentsRow(p, gen, i) ==
    IF i > Len(gen) THEN <<>>
    ELSE centered(parentLine(p, gen[i], LINE_CAP), widthOf(p, gen[i]))
         \o gapAfter(i, Len(gen)) \o parentsRow(p, gen, i + 1)

RECURSIVE connectorRow(_, _, _)
connectorRow(p, gen, i) ==
    IF i > Len(gen) THEN <<>>
    ELSE connector(parentLine(p, gen[i], LINE_CAP), widthOf(p, gen[i]))
         \o gapAfter(i, Len(gen)) \o connectorRow(p, gen, i + 1)

RECURSIVE childrenRow(_, _, _)
childrenRow(p, gen, i) ==
    IF i > Len(gen) THEN <<>>
    ELSE centered(childrenLine(p, gen[i], LINE_CAP), widthOf(p, gen[i]))
         \o gapAfter(i, Len(gen)) \o childrenRow(p, gen, i + 1)

\* What one pass of the generation loop prints: the parents row, the
\* connector row, the children row and a blank line.
renderGeneration(p, gen) ==
    <<parentsRow(p, gen, 1), connectorRow(p, gen, 1), childrenRow(p, gen, 1), <<>>>>

\* pairAdd, but a pair is taken for a hit on its father alone.
pairAddFatherOnly(pairs, f, m, ch) ==
    LET hits == {i \in 1..Len(pairs) : pairs[i].father = f}
    IN  IF hits # {}
        THEN [pairs EXCEPT ![Min(hits)].children = Append(@, ch)]
        ELSE Append(pairs, [FamilyPair(f, m) EXCEPT !.children = <<ch>>])

\* The search of a pair list for the key (f, m), then addChild on the hit
\* or append of a new pair holding ch.
pairAdd(pairs, f, m, ch) ==
    LET hits == {i \in 1..Len(pairs) : pairs[i].father = f /\ pairs[i].mother = m}
    IN  IF hits # {}
        THEN [pairs EXCEPT ![Min(hits)].children = Append(@, ch)]
        ELSE Append(pairs, [FamilyPair(f, m) EXCEPT !.children = <<ch>>])

\* include, but every parentless member counts, not only the root.
includeParentless(p, r, ch) ==
    \/ p[ch].father = r \/ p[ch].mother = r
    \/ (p[ch].father = NULL /\ p[ch].mother = NULL)

\* Is pool entry ch seeded into generation 0?
include(p, r, ch) ==
    \/ p[ch].father = r \/ p[ch].mother = r
    \/ (p[ch].father = NULL /\ p[ch].mother = NULL /\ ch = r)

\* The seeding loop over the pool, from entry i on, with the pairs so far.
RECURSIVE seedGeneration(_, _, _, _)
seedGeneration(p, r, i, acc) ==
    IF i > Len(p) THEN acc
    ELSE seedGeneration(p, r, i + 1,
            IF include(p, r, i)
            THEN pairAdd(acc, p[i].father, p[i].mother, i)
            ELSE acc)

\* Generation 0, with the fallback unit when the seeding found nothing.
firstGeneration(p, r) ==
    LET genHead == seedGeneration(p, r, 1, <<>>)
    IN  IF genHead = <<>>
        THEN <<[FamilyPair(NULL, NULL) EXCEPT !.children = <<r>>]>>
        ELSE genHead

\* childList: the children of the units, unit by unit, without duplicates.
RECURSIVE dedupAppend(_, _)
dedupAppend(acc, s) ==
    IF s = <<>> THEN acc
    ELSE dedupAppend(IF InSeq(acc, Head(s)) THEN acc ELSE Append(acc, Head(s)), Tail(s))

RECURSIVE collectChildren(_, _)
collectChildren(gen, acc) ==
    IF gen = <<>> THEN acc
    ELSE collectChildren(Tail(gen), dedupAppend(acc, Head(gen).children))

\* The inner while loop: every child of one potential parent is added to
\* the next generation's pairs under its own (father, mother) key.
RECURSIVE addFamily(_, _, _)
addFamily(p, cs, acc) ==
    IF cs = <<>> THEN acc
    ELSE addFamily(p, Tail(cs), pairAdd(acc, p[Head(cs)].father, p[Head(cs)].mother, Head(cs)))

\* expand, but the inner loop starts at the potential parent itself
\* instead of at its first child.
RECURSIVE expandFromParent(_, _, _)
expandFromParent(p, childList, acc) ==
    IF childList = <<>> THEN acc
    ELSE expandFromParent(p, Tail(childList),
            IF p[Head(childList)].firstChild = NULL THEN acc
            ELSE addFamily(p, siblingChain(p, Head(childList)), acc))

RECURSIVE expand(_, _, _)
expand(p, childList, acc) ==
    IF childList = <<>> THEN acc
    ELSE expand(p, Tail(childList),
            IF p[Head(childList)].firstChild = NULL THEN acc
            ELSE addFamily(p, childrenOf(p, Head(childList)), acc))

nextGeneration(p, gen) == expand(p, collectChildren(gen, <<>>), <<>>)

----------------------------------------------------------------------------
\* The menu loop

Init ==
    /\ pool = <<>>
    /\ root = NULL
    /\ out = Say("menu", Empty, <<>>)
    /\ pc = "menu"
    /\ currentGen = <<>>
    /\ generation = 0
    /\ gens = <<>>

\* A handler returns with registry and console output o.
Apply(o) ==
    /\ Len(o.pool) <= MaxMembers
    /\ pool' = o.pool
    /\ root' = o.root
    /\ out' = o.out
    /\ pc' = "done"
    /\ UNCHANGED <<currentGen, generation, gens>>

\* Room left in the explored pool for one more member after pool p.
Room(p) == Len(p) < MaxMembers

CreateRoot == pc = "menu" /\ \E o \in createRootInteractive(pool, root) : Apply(o)

\* FamilyTree::addMemberInteractive.
AddMember ==
    /\ pc = "menu"
    /\ IF root = NULL
       THEN Apply(Outcome(pool, root,
                Say("addMember", Empty, <<"Create root first (option 1).">>)))
       ELSE \E typed \in NameInputs :
            LET name == readLine(typed) IN
            IF name = Empty
            THEN Apply(Outcome(pool, root, Say("addMember", name, <<"Empty name. Aborted.">>)))
            ELSE IF findByName(pool, name) # NULL
            THEN Apply(Outcome(pool, root,
                     Say("addMember", name, <<"Member already exists. Aborted.">>)))
            ELSE /\ Room(pool)
                 /\ \E g \in {readGender(x) : x \in GenderInputs}, a \in BOOLEAN :
                    \/ Apply(linkMember(pool, root, name, g, a, NULL, NULL, <<>>))
                    \/ \E fa \in {x \in resolveParent(pool, root, <<>>, "Father") : Room(x.pool)} :
                       \E mo \in {x \in resolveParent(fa.pool, root, fa.msgs, "Mother") : Room(x.pool)} :
                          IF fa.parent # NULL /\ mo.parent = NULL
                          THEN \E sp \in resolveSpouse(mo.pool, root, mo.msgs, "Mother") :
                               Apply(linkMember(sp.pool, root, name, g, a,
                                                fa.parent, sp.parent, sp.msgs))
                          ELSE IF mo.parent # NULL /\ fa.parent = NULL
                          THEN \E sp \in resolveSpouse(mo.pool, root, mo.msgs, "Father") :
                               Apply(linkMember(sp.pool, root, name, g, a,
                                                sp.parent, mo.parent, sp.msgs))
                          ELSE Apply(linkMember(mo.pool, root, name, g, a,
                                                fa.parent, mo.parent, mo.msgs))

MarkLate == pc = "menu" /\ \E o \in markLateInteractive(pool, root) : Apply(o)

ListMembers ==
    /\ pc = "menu"
    /\ out' = showAllNames(pool)
    /\ pc' = "done"
    /\ UNCHANGED <<pool, root, currentGen, generation, gens>>

\* showCenteredTree up to the banner: the root guard, generation 0.
ShowStart ==
    /\ pc = "menu"
    /\ IF root = NULL
       THEN /\ out' = Say("showTree", Empty, <<"No tree. Create root first.">>)
            /\ pc' = "done"
            /\ UNCHANGED <<currentGen, generation, gens>>
       ELSE /\ out' = Say("showTree", Empty, <<"=== CENTERED FAMILY TREE ===">>)
            /\ pc' = "show"
            /\ currentGen' = firstGeneration(pool, root)
            /\ generation' = 0
            /\ gens' = <<>>
    /\ UNCHANGED <<pool, root>>

\* ShowGeneration, but a member whose children were expanded loses its
\* child list: the walk consumes the links it follows.
ShowGenerationConsuming ==
    /\ pc = "show"
    /\ currentGen # <<>>
    /\ generation < MaxGenerations
    /\ out' = [out EXCEPT !.lines = @ \o renderGeneration(pool, currentGen)]
    /\ gens' = Append(gens, currentGen)
    /\ currentGen' = nextGeneration(pool, currentGen)
    /\ generation' = generation + 1
    /\ pool' = [i \in 1..Len(pool) |->
                  IF InSeq(collectChildren(currentGen, <<>>), i)
                  THEN [pool[i] EXCEPT !.firstChild = NULL]
                  ELSE pool[i]]
    /\ UNCHANGED <<root, pc>>

\* One pass of `while (currentGen != NULL)`: the generation is printed and
\* the next one is built from it.
ShowGeneration ==
    /\ pc = "show"
    /\ currentGen # <<>>
    /\ generation < MaxGenerations
    /\ out' = [out EXCEPT !.lines = @ \o renderGeneration(pool, currentGen)]
    /\ gens' = Append(gens, currentGen)
    /\ currentGen' = nextGeneration(pool, currentGen)
    /\ generation' = generation + 1
    /\ UNCHANGED <<pool, root, pc>>

\* The loop has ended: the closing banner, and showCenteredTree returns.
ShowEnd ==
    /\ pc = "show"
    /\ currentGen = <<>>
    /\ out' = [out EXCEPT !.msgs = Append(@, "=== END OF TREE ===")]
    /\ pc' = "done"
    /\ UNCHANGED <<pool, root, currentGen, generation, gens>>

\* Menu::run comes round: the previous output scrolls away, the menu is
\* printed and the next choice is awaited.
MenuPrompt ==
    /\ pc = "done"
    /\ pc' = "menu"
    /\ out' = Say("menu", Empty, <<>>)
    /\ currentGen' = <<>>
    /\ generation' = 0
    /\ gens' = <<>>
    /\ UNCHANGED <<pool, root>>

Next ==
    \/ CreateRoot
    \/ AddMember
    \/ MarkLate
    \/ ListMembers
    \/ ShowStart
    \/ ShowGeneration
    \/ ShowEnd
    \/ MenuPrompt

Spec == Init /\ [][Next]_vars

\* The name typed for child i of a large family: "k", the two digits of i,
\* and filler up to len characters.
Digit(n) == <<"0", "1", "2", "3", "4", "5", "6", "7", "8", "9">>[n + 1]

KidName(i, len) == <<"k", Digit(i \div 10), Digit(i % 10)>> \o [j \in 1..(len - 3) |-> "x"]

\* Name lengths below, at and above MAX_NAME.
KidLengths == {4, MAX_NAME, MAX_NAME + 2}

\* addMemberInteractive in a large family: a fresh name, the root's name at
\* the father prompt, a blank mother, the spouse prompt declined. Children
\* are entered shortest name first.
AddChildOfRoot ==
    /\ pc = "menu"
    /\ root # NULL
    /\ Len(pool) <= MaxKids
    /\ \E len \in KidLengths :
         LET name == readLine(KidName(Len(pool), len))
             father == findByName(pool, readLine(pool[root].name))
             o == linkMember(pool, root, name, "M", TRUE, father, NULL, <<"Mother missing.">>)
         IN  /\ Len(pool) > 1 => Len(pool[Len(pool)].name) <= len
             /\ findByName(pool, name) = NULL
             /\ father # NULL
             /\ pool' = o.pool
             /\ root' = o.root
             /\ out' = o.out
             /\ pc' = "done"
             /\ UNCHANGED <<currentGen, generation, gens>>

WideNext ==
    \/ CreateRoot
    \/ AddChildOfRoot
    \/ ShowStart
    \/ ShowGeneration
    \/ ShowEnd
    \/ MenuPrompt

\* The program run on one large family: a root and up to MaxKids children.
WideSpec == Init /\ [][WideNext]_vars

\* showCenteredTree is one synchronous call: once entered, its loop runs on
\* and it returns when the loop ends.
FairSpec == Spec /\ WF_vars(ShowGeneration) /\ WF_vars(ShowEnd)

----------------------------------------------------------------------------
\* Properties

\* A run of showCenteredTree on an existing tree has returned: gens holds
\* every generation it rendered.
ShowComplete == pc = "done" /\ out.op = "showTree" /\ root # NULL

\* The places (generation, unit, position) where member c is a child.
PlacesIn(gen, c) ==
    UNION {{<<u, k>> : k \in {k \in 1..Len(gen[u].children) : gen[u].children[k] = c}}
           : u \in 1..Len(gen)}

Places(c) == UNION {{<<g>> \o x : x \in PlacesIn(gens[g], c)} : g \in 1..Len(gens)}

Members == 1..Len(pool)

\* C1: no two individuals in the member pool have the same name.
C1_NamesUnique ==
    \A i, j \in Members : i # j => pool[i].name # pool[j].name

\* C2: over a whole run of showCenteredTree, each child of an individual
\* that has children is placed as a child in a family unit exactly once.
C2_ChildPlacedOnce ==
    ShowComplete =>
        \A parent \in Members :
            \A k \in 1..Len(childrenOf(pool, parent)) :
                Cardinality(Places(childrenOf(pool, parent)[k])) = 1

\* C3: within any single generation built by showCenteredTree, an
\* individual placed as a child is in exactly one family unit of it, once.
C3_OncePerGeneration ==
    pc \in {"show", "done"} =>
        /\ \A g \in 1..Len(gens), c \in Members : Cardinality(PlacesIn(gens[g], c)) <= 1
        /\ \A c \in Members : Cardinality(PlacesIn(currentGen, c)) <= 1

\* A finished walk with a generation of two units, one of them holding two
\* children.
C3_Witness ==
    /\ ShowComplete
    /\ \E g \in 1..Len(gens) :
        /\ Len(gens[g]) >= 2
        /\ \E u \in 1..Len(gens[g]) : Len(gens[g][u].children) >= 2

\* C4: showCenteredTree terminates after finitely many generations: the
\* loop counter never passes the size of the pool, which the walk leaves
\* alone, and while a generation is still pending it is below that size,
\* so the pass that renders it is never the capped one.
C4_Terminates ==
    pc = "show" =>
        /\ generation = Len(gens)
        /\ generation <= Len(pool)
        /\ currentGen # <<>> => generation < Len(pool) /\ generation < MaxGenerations

\* C4, as a progress property under FairSpec: a walk that has started
\* returns.
C4_EventuallyReturns == (pc = "show") ~> (pc = "done")

\* A walk that rendered three generations has returned.
C4_Witness == ShowComplete /\ Len(gens) >= 3

Unit(f, m, cs) == [father |-> f, mother |-> m, children |-> cs]

ScenarioC ==
    /\ Len(pool) = 2 /\ root = 1
    /\ pool[1].name = Carol /\ pool[1].gender = "F"
    /\ pool[2].name = Dave /\ pool[2].father = 1 /\ pool[2].mother = NULL

CarolUnknownLine ==
    <<"C", "a", "r", "o", "l", " ", "(", "F", ")", " ", "-", " ",
      "U", "n", "k", "n", "o", "w", "n", " ", "(", "F", ")">>

\* C5: Scenario C renders generation 0 = [unit(none, none, [Carol])] and
\* generation 1 = [unit(Carol, none, [Dave])] with parent-line
\* "Carol (F) - Unknown (F)"; generation 0 only ever holds units whose
\* parents are both absent.
C5_ScenarioC ==
    ShowComplete =>
        /\ \A u \in 1..Len(gens[1]) :
              gens[1][u].father = NULL /\ gens[1][u].mother = NULL
        /\ ScenarioC =>
              /\ gens = << <<Unit(NULL, NULL, <<1>>)>>, <<Unit(1, NULL, <<2>>)>> >>
              /\ parentLine(pool, gens[2][1], LINE_CAP) = CarolUnknownLine

\* Non-root members whose father and mother are both absent (added with no
\* parents, or created on the fly as a missing parent).
Parentless == {c \in Members : c # root /\ pool[c].father = NULL /\ pool[c].mother = NULL}

Said(o, m) == InSeq(o.msgs, m)

\* The step is an add-member run that reported a parent-name miss.
MissReported ==
    /\ out'.op = "addMember" /\ pc = "menu"
    /\ Said(out', "Father not found.") \/ Said(out', "Mother not found.")

\* What add-member may not touch of the members that existed before it.
IdentityKept ==
    /\ root' = root
    /\ Len(pool') >= Len(pool)
    /\ \A i \in Members :
          /\ pool'[i].name = pool[i].name
          /\ pool'[i].gender = pool[i].gender
          /\ pool'[i].alive = pool[i].alive
          /\ pool'[i].father = pool[i].father
          /\ pool'[i].mother = pool[i].mother

\* C7: an add-member run given a parent name that is not found aborts
\* without side effects: pool, root and all links are as before.
C7_MissAborts == [][MissReported => pool' = pool /\ root' = root]_vars

FatherCreated == "Father created and attached under root for visibility."
MotherCreated == "Mother created and attached under root for visibility."

\* C7 as amended: the miss is reported with an offer to create the parent
\* and the run goes on: the new member is always added; a declined parent
\* is treated as absent (unless the spouse prompt then supplies one), an
\* accepted one is a new member attached under the root and becomes the
\* parent; root and every earlier member's name, gender, alive flag,
\* father and mother are as before.
C7_MissContinues ==
    [][MissReported =>
        LET nm == Len(pool') IN
        /\ IdentityKept
        /\ Len(pool') > Len(pool)
        /\ pool'[nm].name = out'.name
        /\ Said(out', "Member added successfully.")
        /\ (Said(out', "Father not found.") /\ ~Said(out', FatherCreated)
               /\ ~Said(out', "Father missing."))
              => pool'[nm].father = NULL
        /\ (Said(out', "Mother not found.") /\ ~Said(out', MotherCreated)
               /\ ~Said(out', "Mother missing."))
              => pool'[nm].mother = NULL
        /\ Said(out', FatherCreated)
              => /\ pool'[nm].father > Len(pool)
                 /\ InSeq(childrenOf(pool', root), pool'[nm].father)
        /\ Said(out', MotherCreated)
              => /\ pool'[nm].mother > Len(pool)
                 /\ InSeq(childrenOf(pool', root), pool'[nm].mother)
    ]_vars

\* An add-member run has reported a missed father, the operator declined
\* to create him, and the member was added all the same.
C7_Witness ==
    /\ pc = "done" /\ out.op = "addMember"
    /\ Said(out, "Father not found.") /\ ~Said(out, FatherCreated)
    /\ Said(out, "Member added successfully.")

Rejections ==
    {"Root already exists.", "Empty name. Aborted.", "Create root first (option 1).",
     "Member already exists. Aborted.", "No tree exists.", "Empty name.",
     "No tree. Create root first."}

\* C8: every rejected operation leaves the registry unchanged: create-root
\* when a root exists, add-member / mark-late / show-tree before a root
\* exists, add-member with a name that already exists, and create-root /
\* add-member / mark-late given an empty name; each is reported as such.
C8_RejectedIsNoOp ==
    [][(pc = "menu" /\ pc' # "menu") =>
        /\ (\E m \in Rejections : Said(out', m)) => registry' = registry
        /\ (out'.op = "createRoot" /\ root # NULL)
              => registry' = registry /\ out'.msgs = <<"Root already exists.">>
        /\ (out'.op = "addMember" /\ root = NULL)
              => registry' = registry /\ out'.msgs = <<"Create root first (option 1).">>
        /\ (out'.op = "markLate" /\ root = NULL)
              => registry' = registry /\ out'.msgs = <<"No tree exists.">>
        /\ (out'.op = "showTree" /\ root = NULL)
              => registry' = registry /\ pc' = "done"
                 /\ out'.msgs = <<"No tree. Create root first.">>
        /\ (out'.op = "addMember" /\ root # NULL
               /\ \E i \in Members : pool[i].name = out'.name)
              => registry' = registry /\ out'.msgs = <<"Member already exists. Aborted.">>
        /\ (out'.op = "createRoot" /\ root = NULL /\ out'.name = Empty)
              => registry' = registry /\ out'.msgs = <<"Empty name. Aborted.">>
        /\ (out'.op = "addMember" /\ root # NULL /\ out'.name = Empty)
              => registry' = registry /\ out'.msgs = <<"Empty name. Aborted.">>
        /\ (out'.op = "markLate" /\ root # NULL /\ out'.name = Empty)
              => registry' = registry /\ out'.msgs = <<"Empty name.">>
    ]_vars

\* A create-root has just been rejected on a tree that already has members.
C8_Witness ==
    pc = "done" /\ out.msgs = <<"Root already exists.">> /\ Len(pool) >= 2

\* The member a name lookup answers with: the first pool entry of that name.
Named(name) == {i \in Members : pool[i].name = name /\ \A j \in 1..(i - 1) : pool[j].name # name}

\* C9: mark-late changes state in one case only: the named member exists,
\* is alive and the operator confirms; then exactly that member's alive
\* flag becomes false.  Not found, already late ("Already marked Late.")
\* or declined: nothing changes.  No step turns a false alive flag true.
C9_MarkLate ==
    [][/\ \A i \in Members : ~pool[i].alive => (Len(pool') >= i /\ ~pool'[i].alive)
       /\ out'.op = "markLate" =>
            IF out'.msgs = <<"Marked Late.">>
            THEN \E m \in Named(out'.name) :
                    /\ pool[m].alive
                    /\ pool' = [pool EXCEPT ![m].alive = FALSE]
                    /\ root' = root
            ELSE /\ registry' = registry
                 /\ out'.msgs = <<"Member not found.">> => Named(out'.name) = {}
                 /\ out'.msgs = <<"Already marked Late.">>
                       => \E m \in Named(out'.name) : ~pool[m].alive
                 /\ out'.msgs = <<"Cancelled.">>
                       => \E m \in Named(out'.name) : pool[m].alive
    ]_vars

\* Marking an already-late member has just been reported as such.
C9_Witness == pc = "done" /\ out.msgs = <<"Already marked Late.">>

Listed == pc = "done" /\ out.op = "showAllNames"

\* C10: the listing reflects each member's alive flag: the listing of a
\* registry with a late member differs from the listing of the registry
\* that is the same but for that member being alive.
C10_ListingShowsAlive ==
    Listed =>
        \A i \in Members :
            ~pool[i].alive => out.lines # showAllNames([pool EXCEPT ![i].alive = TRUE]).lines

\* C10 as amended: the listing is the members' names alone, one line
\* "- <name>" per member in pool order; the alive flag is not part of it,
\* so a late member's line is the line it would have if alive.
C10_ListingIsNamesOnly ==
    Listed =>
        /\ Len(out.lines) = Len(pool)
        /\ \A i \in Members : out.lines[i] = <<"-", " ">> \o pool[i].name

\* A listing has been printed of a registry that holds a late member.
C10_Witness == Listed /\ \E i \in Members : ~pool[i].alive

\* The generations a walk over registry (p, r) renders, and its rows.
RECURSIVE WalkFrom(_, _, _)
WalkFrom(p, gen, fuel) ==
    IF gen = <<>> \/ fuel = 0 THEN <<>>
    ELSE <<gen>> \o WalkFrom(p, nextGeneration(p, gen), fuel - 1)

Walk(p, r) == WalkFrom(p, firstGeneration(p, r), MaxGenerations)

RECURSIVE RowsOf(_, _)
RowsOf(p, gs) == IF gs = <<>> THEN <<>> ELSE renderGeneration(p, Head(gs)) \o RowsOf(p, Tail(gs))

\* The step belongs to a run of showCenteredTree.
ShowStep == pc = "show" \/ (pc = "menu" /\ out'.op = "showTree")

\* C11: showCenteredTree leaves the registry alone (pool, root, every
\* member's name, gender, alive flag, father, mother, first-child and
\* next-sibling link), so what a finished run rendered is what a run on
\* the registry as it now stands renders: the same generations, the same
\* rows.
C11_ShowIsPure ==
    [][ShowStep =>
           /\ pool' = pool /\ root' = root
           /\ (pc' = "done" /\ root # NULL) =>
                 /\ gens' = Walk(pool', root')
                 /\ out'.lines = RowsOf(pool', Walk(pool', root'))
    ]_vars

\* A run over a tree of three generations has returned.
C11_Witness == ShowComplete /\ Len(gens) >= 3 /\ Len(out.lines) >= 12

\* The members the generation-0 loop groups, in the order it meets them.
RECURSIVE SeededFrom(_)
SeededFrom(i) ==
    IF i > Len(pool) THEN <<>>
    ELSE (IF include(pool, root, i) THEN <<i>> ELSE <<>>) \o SeededFrom(i + 1)

\* The members the expansion of generation gen groups, in the order it
\* meets them: the child lists of gen's children, parent by parent.
RECURSIVE ListsOf(_)
ListsOf(cs) == IF cs = <<>> THEN <<>> ELSE childrenOf(pool, Head(cs)) \o ListsOf(Tail(cs))

Encountered(gen) == ListsOf(collectChildren(gen, <<>>))

\* The members of sequence e whose parents are (f, m), in e's order.
RECURSIVE WithKey(_, _, _)
WithKey(e, f, m) ==
    IF e = <<>> THEN <<>>
    ELSE (IF pool[Head(e)].father = f /\ pool[Head(e)].mother = m THEN <<Head(e)>> ELSE <<>>)
         \o WithKey(Tail(e), f, m)

FirstIndex(e, c) == Min({i \in 1..Len(e) : e[i] = c})

\* gen is the grouping of e: one unit per (father, mother) key met, units
\* in the order their first child was met, children in the order met.
GroupingOf(e, gen) ==
    /\ \A u, v \in 1..Len(gen) :
          u # v => <<gen[u].father, gen[u].mother>> # <<gen[v].father, gen[v].mother>>
    /\ \A u \in 1..Len(gen) :
          /\ gen[u].children # <<>>
          /\ gen[u].children = WithKey(e, gen[u].father, gen[u].mother)
    /\ \A i \in 1..Len(e) :
          \E u \in 1..Len(gen) :
              gen[u].father = pool[e[i]].father /\ gen[u].mother = pool[e[i]].mother
    /\ \A u, v \in 1..Len(gen) :
          u < v => FirstIndex(e, gen[u].children[1]) < FirstIndex(e, gen[v].children[1])

\* The generations built so far in a run, the pending one last.
Built == IF pc = "show" THEN Append(gens, currentGen) ELSE gens

\* C12: grouping is by reference identity and order-stable, in generation
\* 0 (over the member pool) and in every next generation: no two units of
\* a generation share a (father, mother) key, an absent parent being a key
\* value of its own; units are in first-encounter order and the children
\* of a unit in encounter order.
C12_GroupingStable ==
    (pc \in {"show", "done"} /\ root # NULL /\ out.op = "showTree") =>
        \A g \in 1..Len(Built) :
            IF g = 1
            THEN GroupingOf(SeededFrom(1), Built[1])
            ELSE GroupingOf(Encountered(Built[g - 1]), Built[g])

\* A finished run with a generation of three units, two of which have the
\* same father and differ in that one has no mother.
C12_Witness ==
    /\ ShowComplete
    /\ \E g \in 1..Len(gens) :
        /\ Len(gens[g]) >= 3
        /\ \E u, v \in 1..Len(gens[g]) :
              /\ gens[g][u].father = gens[g][v].father /\ gens[g][u].father # NULL
              /\ gens[g][u].mother = NULL /\ gens[g][v].mother # NULL

Largest(S) == CHOOSE x \in S : \A y \in S : y <= x

\* The width a unit's block must have by the width rule.
BlockWidth(unit) ==
    Largest({Len(parentLine(pool, unit, LINE_CAP)),
             Len(childrenLine(pool, unit, LINE_CAP)), MIN_WIDTH})

\* The column before the block of unit u in a printed row of gen.
RECURSIVE BlockStart(_, _)
BlockStart(gen, u) ==
    IF u = 1 THEN 0 ELSE BlockStart(gen, u - 1) + BlockWidth(gen[u - 1]) + HSPACE

RowLength(gen) == BlockStart(gen, Len(gen)) + BlockWidth(gen[Len(gen)])

Block(row, gen, u) ==
    SubSeq(row, BlockStart(gen, u) + 1, BlockStart(gen, u) + BlockWidth(gen[u]))

\* block is text between a left pad of floor((w - length) / 2) spaces and
\* a right pad of the rest, neither negative, w characters in all.
Padded(text, w, block) ==
    /\ w >= Len(text)
    /\ LET left == (w - Len(text)) \div 2
           right == w - left - Len(text)
       IN  /\ left >= 0 /\ right >= 0
           /\ Len(block) = w
           /\ block = Spaces(left) \o text \o Spaces(right)

Showing == pc \in {"show", "done"} /\ out.op = "showTree" /\ root # NULL

\* C13: for every family unit printed, the block of its parent-line in the
\* parents row and the block of its children-line in the children row are
\* each exactly max(length of parent-line, length of children-line, 6)
\* wide: left pad floor((width - length) / 2), the text, the right pad,
\* no pad negative.
C13_CenteringKeepsWidth ==
    Showing =>
        \A g \in 1..Len(gens) :
            LET gen == gens[g]
                parents == out.lines[4 * (g - 1) + 1]
                children == out.lines[4 * (g - 1) + 3]
            IN  /\ Len(parents) = RowLength(gen)
                /\ Len(children) = RowLength(gen)
                /\ \A u \in 1..Len(gen) :
                      /\ Padded(parentLine(pool, gen[u], LINE_CAP), BlockWidth(gen[u]),
                                Block(parents, gen, u))
                      /\ Padded(childrenLine(pool, gen[u], LINE_CAP), BlockWidth(gen[u]),
                                Block(children, gen, u))

\* A finished run that printed a unit whose children-line is the longer
\* line and a unit whose children-line gets a right pad one wider than
\* its left pad.
C13_Witness ==
    /\ ShowComplete
    /\ \E g \in 1..Len(gens) : \E u \in 1..Len(gens[g]) :
          Len(childrenLine(pool, gens[g][u], LINE_CAP))
              > Len(parentLine(pool, gens[g][u], LINE_CAP))
    /\ \E g \in 1..Len(gens) : \E u \in 1..Len(gens[g]) :
          (BlockWidth(gens[g][u]) - Len(childrenLine(pool, gens[g][u], LINE_CAP))) % 2 = 1

\* The child names of a unit, each cut to MAX_NAME characters, joined by
\* single spaces.
RECURSIVE JoinedNames(_)
JoinedNames(cs) ==
    IF cs = <<>> THEN <<>>
    ELSE Take(pool[Head(cs)].name, MAX_NAME)
         \o (IF Len(cs) > 1 THEN <<" ">> ELSE <<>>) \o JoinedNames(Tail(cs))

\* C14: for every family unit, whatever its number of children, the
\* children-line printed is the unit's child names in unit order, each cut
\* to at most 15 characters, joined by single spaces, with no child missing
\* or cut short otherwise. (Violated: the line is built in a buffer of 256
\* characters and ends where the buffer does.)
C14_ChildrenLineComplete ==
    Showing =>
        \A g \in 1..Len(gens) :
            /\ Len(out.lines) >= 4 * g
            /\ \A u \in 1..Len(gens[g]) :
                  LET text == JoinedNames(gens[g][u].children)
                      line == childrenLine(pool, gens[g][u], LINE_CAP)
                  IN  /\ line = text
                      /\ Len(out.lines[4 * (g - 1) + 3]) >= BlockStart(gens[g], u) + Len(text)

\* Member c is a child of some unit of generation gen.
ChildIn(gen, c) == \E u \in 1..Len(gen) : InSeq(gen[u].children, c)

\* C15: the tree is displayed top-down: whenever a unit with a father or
\* a mother present is rendered in generation N, that father and that
\* mother were each rendered as a child in a generation strictly earlier
\* than N. (Violated: a unit is rendered in the generation in which its
\* own parent is rendered as a child.)
C15_ParentsEarlier ==
    Showing =>
        \A g \in 1..Len(gens) : \A u \in 1..Len(gens[g]) :
            \A parent \in {gens[g][u].father, gens[g][u].mother} \ {NULL} :
                \E h \in 1..(g - 1) : ChildIn(gens[h], parent)

\* Member c is on the child list of member x.
OnListOf(x, c) == InSeq(childrenOf(pool, x), c)

\* C16 as stated: c is in X's child list if and only if c's father is X
\* or c's mother is X. (Violated: a member with both parents is on the
\* father's list only, and a member without parents is on the root's.)
C16_ListIsOffspring ==
    \A x, c \in Members :
        OnListOf(x, c) <=> (pool[c].father = x \/ pool[c].mother = x)

\* C16, amended: c is in X's child list if and only if X is c's father,
\* or c has no father and X is c's mother, or c has neither, is not the
\* root, and X is the root.
C16_ListIsFirstParent ==
    \A x, c \in Members :
        OnListOf(x, c) <=>
            \/ pool[c].father = x
            \/ pool[c].father = NULL /\ pool[c].mother = x
            \/ pool[c].father = NULL /\ pool[c].mother = NULL /\ c # root /\ x = root

\* A registry with a member on its father's list and not on its mother's,
\* whose mother was created on the fly and is on the root's list.
C16_Witness ==
    /\ pc = "menu"
    /\ \E c \in Members :
        /\ pool[c].father # NULL /\ pool[c].mother # NULL
        /\ pool[c].father # pool[c].mother
        /\ OnListOf(pool[c].father, c)
        /\ ~OnListOf(pool[c].mother, c)
        /\ OnListOf(root, pool[c].mother)
        /\ pool[pool[c].mother].father = NULL

\* C17: the complete tree is displayed: when a showCenteredTree run has
\* finished, every member of the pool (the root, members with parents,
\* members attached under the root, parents created on the fly) is a
\* child of a unit in at least one generation.
C17_EveryMemberShown ==
    ShowComplete => \A c \in Members : Places(c) # {}

\* A finished run over a root, a parent created on the fly and attached
\* under the root, and that parent's child, which is reached only through
\* the parent's child list.
C17_Witness ==
    /\ ShowComplete
    /\ \E c \in Members :
        LET f == pool[c].father IN
        /\ f # NULL /\ f # root /\ f < c
        /\ pool[c].mother = NULL
        /\ pool[f].father = NULL /\ pool[f].mother = NULL
        /\ OnListOf(root, f)
        /\ Places(c) # {} /\ Places(f) # {}

\* The members met from c along next-sibling links, at most fuel of them.
RECURSIVE ChainFrom(_, _)
ChainFrom(c, fuel) ==
    IF c = NULL \/ fuel = 0 THEN <<>>
    ELSE <<c>> \o ChainFrom(pool[c].nextSibling, fuel - 1)

ListOf(x) == ChainFrom(pool[x].firstChild, Len(pool) + 1)

\* The places (list owner, position) where c is on a child list.
Owners(c) == {xk \in Members \X (1..(Len(pool) + 1)) :
                 xk[2] <= Len(ListOf(xk[1])) /\ ListOf(xk[1])[xk[2]] = c}

\* From c, going to the owner of a list c is on reaches the root within
\* fuel steps.
RECURSIVE ReachesRoot(_, _)
ReachesRoot(c, fuel) ==
    \/ c = root
    \/ fuel > 0 /\ \E xk \in Owners(c) : ReachesRoot(xk[1], fuel - 1)

\* The first-child and next-sibling links that point at member c.
LinksTo(c) ==
    {<<"firstChild", x>> : x \in {x \in Members : pool[x].firstChild = c}}
    \cup {<<"nextSibling", x>> : x \in {x \in Members : pool[x].nextSibling = c}}

\* C18: in every registry state the first-child/next-sibling links form a
\* tree rooted at the root: the root is in no child list and has neither
\* father nor mother; every other member is in exactly one child list,
\* once; child links lead from the root to every member without coming
\* back to a member; no member is the target of two links; and the
\* generation-0 seeding is never empty, so the fallback is not taken.
C18_LinksFormTree ==
    /\ root = NULL => pool = <<>>
    /\ root # NULL =>
        /\ Owners(root) = {}
        /\ LinksTo(root) = {}
        /\ pool[root].father = NULL /\ pool[root].mother = NULL
        /\ \A c \in Members \ {root} :
              /\ Cardinality(Owners(c)) = 1
              /\ Cardinality(LinksTo(c)) = 1
              /\ ReachesRoot(c, Len(pool))
        /\ \A x \in Members : Len(ListOf(x)) < Len(pool)
        /\ seedGeneration(pool, root, 1, <<>>) # <<>>

\* A registry of three members where a member on the root's list has a
\* child of its own, two links away from the root.
C18_Witness ==
    /\ pc = "menu"
    /\ root # NULL
    /\ Len(pool) >= 3
    /\ \E c \in Members \ {root} :
        /\ ListOf(c) # <<>>
        /\ \E k \in 1..Len(ListOf(root)) : ListOf(root)[k] = c

====
